---- MODULE Spec2Model ----
(***************************************************************************)
(* The generation request queue of the Fish Speech web UIs: Callers        *)
(* (generate_speech_with_voice, generate_speech, generate_tts_audio) put   *)
(* a GenerateRequest with a fresh response queue on the shared             *)
(* model_queue, one Worker drains model_queue against the inference        *)
(* session and writes WrappedGenerateResponse events to the request's      *)
(* response queue, and the Caller aggregates them with a per-read timeout. *)
(***************************************************************************)
EXTENDS Integers, Sequences, FiniteSets, TLC

\* ------------------------------------------------------------------ bounds
NumCallers == 2
MaxSubChunks == 2
MaxFeed == 3

\* ------------------------------------------------------- program constants
chunk_length == 200
TimeoutFinal == 60
TimeoutSimple == 60
TimeoutFixed == 30

Callers == 1..NumCallers
\* the scripts whose Caller reads a response queue: run_final_working_webui,
\* run_simple_working_webui, run_fixed_tts_webui
Programs == {"final", "simple", "fixed"}
\* every script that puts requests on the queue: those, and run_simple_webui
Scripts == Programs \cup {"webui"}

\* ------------------------------------------------------------------ inputs
\* A text is a string in run-length form: a sequence of runs [ch, n], n >= 1
\* copies of the character with code point ch.
Run(ch, n) == [ch |-> ch, n |-> n]
\* " \r"
BlankText == <<Run(32, 1), Run(13, 1)>>
\* "hi"
ShortText == <<Run(104, 1), Run(105, 1)>>
\* "aaa...", one character more than fits in MaxSubChunks - 1 sub-chunks
LongText == <<Run(97, chunk_length * (MaxSubChunks - 1) + 1)>>

\* len(text)
RECURSIVE TextLen(_)
TextLen(s) == IF s = <<>> THEN 0 ELSE Head(s).n + TextLen(Tail(s))

\* the code points str.strip() removes: those for which str.isspace() is true
IsSpace(ch) ==
    ch \in (9..13) \cup (28..32) \cup {133, 160, 5760} \cup (8192..8202)
           \cup {8232, 8233, 8239, 8287, 12288}

RECURSIVE LStrip(_)
LStrip(s) == IF s = <<>> THEN s
             ELSE IF IsSpace(Head(s).ch) THEN LStrip(Tail(s)) ELSE s

RECURSIVE RStrip(_)
RStrip(s) == IF s = <<>> THEN s
             ELSE IF IsSpace(s[Len(s)].ch) THEN RStrip(SubSeq(s, 1, Len(s) - 1)) ELSE s

\* bug variant: the text is tested without strip()
StripNone(s) == s
\* str.strip()
Strip(s) == RStrip(LStrip(s))

\* "[xy]" for the two characters with code points x and y
Bracketed(x, y) == <<Run(91, 1), Run(x, 1), Run(y, 1), Run(93, 1)>>

\* VOICE_STYLES[get_voice_style_key(voice_style)]["prompt"]; the style is given
\* by its key, and a name that is no style's name gives "neutral"; only
\* generate_speech_with_voice has voice styles
VoicePrompt(style) ==
    CASE style = "broadcaster" -> Bracketed(25773, 38899)
      [] style = "storyteller" -> Bracketed(25925, 20107)
      [] style = "friendly" -> Bracketed(21451, 21892)
      [] style = "professional" -> Bracketed(19987, 19994)
      [] style = "energetic" -> Bracketed(27963, 21147)
      [] style = "calm" -> Bracketed(24179, 38745)
      [] style = "cheerful" -> Bracketed(24320, 26391)
      [] OTHER -> <<>>

\* "aaa...", as long as LongText once the prompt of a voice style is put before it
NearLongText == <<Run(97, TextLen(LongText) - TextLen(VoicePrompt("friendly")))>>

\* final_text = f"{voice_config['prompt']}{text}"
FinalText(prog, style, text) ==
    IF prog = "final" /\ VoicePrompt(style) # <<>> THEN VoicePrompt(style) \o text ELSE text

\* temperatures are in tenths: 0.7 is 7
\* get_voice_parameters(voice_style)["temperature"]
VoiceTemperature(voice) ==
    CASE voice = "friendly" -> 8
      [] voice = "professional" -> 5
      [] voice = "energetic" -> 9
      [] voice = "calm" -> 4
      [] voice = "storyteller" -> 6
      [] OTHER -> 7

\* the temperature put in request_data: generate_tts_audio replaces the argument
\* by the built-in voice's temperature when voice_mode is "Built-in Voice" and
\* builtin_voice names a voice of BUILTIN_VOICES; the other callers pass it on
RequestTemperature(prog, style, temperature) ==
    IF prog = "fixed" /\ style \in {"neutral", "friendly", "professional", "energetic",
                                     "calm", "storyteller"}
    THEN VoiceTemperature(style)
    ELSE temperature

\* request_data["iterative_prompt"]: True in generate_speech_with_voice and
\* generate_speech; generate_tts_audio does not set the key
IterativePrompt(prog) == prog \in {"final", "simple"}

\* the (text, voice style, temperature) triples a call is made with; for
\* generate_tts_audio the style "cloning" stands for voice_mode "Voice Cloning"
Inputs(prog) ==
    CASE prog = "final" ->
           {<<BlankText, "neutral", 7>>, <<ShortText, "broadcaster", 7>>,
            <<NearLongText, "friendly", 7>>, <<ShortText, "neutral", 0>>}
      [] prog = "simple" ->
           {<<BlankText, "neutral", 7>>, <<ShortText, "neutral", 7>>,
            <<LongText, "neutral", 7>>, <<ShortText, "neutral", 0>>}
      [] prog = "fixed" ->
           {<<BlankText, "neutral", 7>>, <<ShortText, "calm", 0>>,
            <<LongText, "cloning", 7>>, <<ShortText, "cloning", 0>>}
      [] OTHER ->
           {<<BlankText, "neutral", 7>>, <<ShortText, "neutral", 7>>,
            <<LongText, "neutral", 7>>}

\* the timeout of response_queue.get(timeout=...)
PollTimeout(prog) == CASE prog = "final" -> TimeoutFinal
                       [] prog = "simple" -> TimeoutSimple
                       [] OTHER -> TimeoutFixed

VARIABLES
    program,        \* which of the web UI scripts is running
    model_loaded,   \* initialize_model() returned a queue (global model_queue is not None)
    model_queue,    \* the Generation Queue: sequence of GenerateRequest
    chan,           \* response queues: channel id -> events written and not yet read
    nextChan,       \* number of response queues created so far
    wpc,            \* Worker: "idle" (blocked in takeNext) or "busy"
    wreq,           \* Worker: the request it is processing
    wk,             \* Worker: sub-chunks generated so far for wreq
    session,        \* ids of the requests executing against the inference session
    pc,             \* Caller: "idle", "poll", "returned"
    creq,           \* Caller: the GenerateRequest it submitted
    all_tokens,     \* Caller: the accumulation buffer
    result,         \* Caller: the (path, message) pair it returned
    written,        \* history: every event ever written to each channel
    received,       \* history: every event each Caller read from its channel
    polls,          \* history: outcome of each response_queue.get of each Caller
    submitted,      \* history: request ids in the order of model_queue.put
    taken,          \* history: request ids in the order the Worker took them
    contexts,       \* history: request id -> the conditioning context of each
                    \*          generation call made for it, in order
    provider,       \* the remote TTS provider: what it answers to each request schema
    tts_pc,         \* call_tts: "idle", "attempt1", "attempt2", "attempt3", "plain",
                    \*           "status", "returned"
    tts_in,         \* call_tts: its arguments
    tts_r,          \* call_tts: the local r, the last response received
    tts_result,     \* call_tts: the (audio, message) pair it returned
    sent,           \* history: every request call_tts posted, in order
    feed,           \* a timed run of a channel: the events and the seconds between them
    loop            \* the aggregation loop of each script run on feed: position,
                    \* buffer, seconds elapsed, outcome

\* the state of the generation queue, its Worker and its Callers
qvars == <<program, model_loaded, model_queue, chan, nextChan, wpc, wreq, wk, session,
           pc, creq, all_tokens, result, written, received, polls, submitted, taken,
           contexts>>
\* the state of the External TTS Client and of its provider
tvars == <<provider, tts_pc, tts_in, tts_r, tts_result, sent>>
\* the aggregation loops run on a given feed
lvars == <<feed, loop>>
vars == <<qvars, tvars, lvars>>

ChanIds == 1..NumCallers
NoRequest == [id |-> 0, text |-> <<>>, temperature |-> 0, iterative_prompt |-> FALSE,
              chan |-> 0]
NoResult == [path |-> "unset", kind |-> "unset", detail |-> "", tokens |-> <<>>]

\* ------------------------------------------------------------------ events
\* WrappedGenerateResponse(status, response): response is None (none = TRUE), a
\* payload (codes, action), or the exception (detail) when status = "error".
ChunkEvent(r, codes, action) ==
    [status |-> "success", none |-> FALSE, codes |-> codes, action |-> action,
     detail |-> "", req |-> r]
DoneEvent(r) ==
    [status |-> "success", none |-> TRUE, codes |-> <<>>, action |-> "", detail |-> "",
     req |-> r]
ErrorEvent(r, msg) ==
    [status |-> "error", none |-> FALSE, codes |-> <<>>, action |-> "", detail |-> msg,
     req |-> r]

IsChunk(e) == e.status = "success" /\ ~e.none
IsDone(e) == e.status = "success" /\ e.none
IsError(e) == e.status # "success"
IsTerminal(e) == IsDone(e) \/ IsError(e)

RECURSIVE ConcatCodes(_)
ConcatCodes(s) ==
    IF s = <<>> THEN <<>>
    ELSE (IF IsChunk(Head(s)) THEN Head(s).codes ELSE <<>>) \o ConcatCodes(Tail(s))

\* ------------------------------------------------------------- the Caller
\* response_queue = queue.Queue(): a new queue object for every submission
\* bug variant: one queue object shared by every submission
NewResponseQueueShared(created) == 1
NewResponseQueue(created) == created + 1

\* response_queue = queue.Queue() has no maxsize: a put on it never blocks
\* bug variant: queue.Queue(maxsize=1)
ChannelFullOne(q) == Len(q) >= 1
ChannelFull(q) == FALSE

\* model_queue.put(generate_request)
\* bug variant: the request is put on the queue twice
PutTwice(q, request) == Append(Append(q, request), request)
\* bug variant: the request is put at the front of the queue
PutFront(q, request) == <<request>> \o q
\* bug variant: the request is dropped when the queue already holds one
PutDrop(q, request) == IF q = <<>> THEN <<request>> ELSE q
Put(q, request) == Append(q, request)

\* The Caller only puts (request, channel) on the queue: the set of requests it
\* runs against the inference session itself is empty.
\* bug variant: the Caller also runs its request against the session itself
CallerSessionUseDirect(c) == {c}
CallerSessionUse(c) == {}

Failure(kind, detail) == [path |-> "None", kind |-> kind, detail |-> detail, tokens |-> <<>>]
Success(tokens) == [path |-> "file", kind |-> "success", detail |-> "", tokens |-> tokens]

\* One pass of the body of `while True:` on an event that was read.
\* ctl: "continue" (poll again), "break" (leave the loop), "return" (return failure).
\* bug variant: any action tag ends the loop
generate_speech_with_voiceAnyAction(tokens, e) ==
    IF e.status = "success"
    THEN [tokens |-> tokens \o e.codes, ctl |-> "break"]
    ELSE [tokens |-> tokens, ctl |-> "return"]
generate_speech_with_voice(tokens, e) ==
    IF e.status = "success"
    THEN IF ~e.none
         THEN [tokens |-> tokens \o e.codes,
               ctl |-> IF e.action = "next" THEN "continue"
                       ELSE IF e.action = "sample" THEN "break"
                       ELSE "continue"]
         ELSE [tokens |-> tokens, ctl |-> "break"]
    ELSE [tokens |-> tokens, ctl |-> "return"]

generate_speech(tokens, e) ==
    IF e.status = "success"
    THEN IF ~e.none
         THEN [tokens |-> tokens \o e.codes, ctl |-> "continue"]
         ELSE [tokens |-> tokens, ctl |-> "break"]
    ELSE [tokens |-> tokens, ctl |-> "return"]

\* bug variant: the payload is not added to the buffer
generate_tts_audioNoExtend(tokens, e) ==
    [tokens |-> tokens, ctl |-> generate_speech(tokens, e).ctl]
generate_tts_audio(tokens, e) ==
    IF e.status = "success"
    THEN IF ~e.none
         THEN [tokens |-> tokens \o e.codes, ctl |-> "continue"]
         ELSE [tokens |-> tokens, ctl |-> "break"]
    ELSE [tokens |-> tokens, ctl |-> "return"]

\* bug variant: the payload of a chunk is not added to the buffer
AggregateDrop(prog, tokens, e) ==
    IF e.status = "success"
    THEN [tokens |-> tokens, ctl |-> IF e.none THEN "break" ELSE "continue"]
    ELSE [tokens |-> tokens, ctl |-> "return"]
Aggregate(prog, tokens, e) ==
    CASE prog = "final" -> generate_speech_with_voice(tokens, e)
      [] prog = "simple" -> generate_speech(tokens, e)
      [] OTHER -> generate_tts_audio(tokens, e)

\* response_queue.get is called with a timeout, so a read of an empty channel ends
\* bug variant: response_queue.get() without a timeout
HasTimeoutNone(prog) == FALSE
HasTimeout(prog) == PollTimeout(prog) > 0

\* except queue.Empty: return None, "Generation timed out ..."
\* bug variant: queue.Empty is not handled at the read and reaches the outer
\* `except Exception`, which reports a generic failure
OnEmptyOuter(prog) == Failure("speech_generation_failed", "")
\* bug variant: the timeout is reported with the message of a generation error
OnEmptyAsError(prog) == Failure("generation_failed", "SessionFailure")
OnEmpty(prog) == Failure("timeout", IF prog = "fixed" THEN "" ELSE "after 60 seconds")

\* else-branch of `if response.status == "success"`
\* bug variant: the error's message is not put in the result
OnErrorNoMessage(e) == Failure("generation_failed", "")
OnError(e) == Failure("generation_failed", e.detail)

\* after the loop: `if not all_tokens` ... np.save ... return str(output_file), message
\* bug variant: no test for an empty buffer
FinalizeAlways(tokens) == Success(tokens)
Finalize(tokens) == IF tokens = <<>> THEN Failure("no_tokens", "") ELSE Success(tokens)

\* The call up to and including model_queue.put, or an early return.
CallerStart(c, text, style, temperature) ==
    /\ program \in Programs
    /\ pc[c] = "idle"
    /\ IF ~model_loaded
       THEN /\ result' = [result EXCEPT ![c] = Failure("not_loaded", "")]
            /\ pc' = [pc EXCEPT ![c] = "returned"]
            /\ UNCHANGED <<model_queue, nextChan, creq, session, submitted>>
       ELSE IF Strip(text) = <<>>
       THEN /\ result' = [result EXCEPT ![c] = Failure("empty_text", "")]
            /\ pc' = [pc EXCEPT ![c] = "returned"]
            /\ UNCHANGED <<model_queue, nextChan, creq, session, submitted>>
       ELSE LET request == [id |-> c, text |-> FinalText(program, style, text),
                            temperature |-> RequestTemperature(program, style, temperature),
                            iterative_prompt |-> IterativePrompt(program),
                            chan |-> NewResponseQueue(nextChan)]
            IN /\ nextChan' = nextChan + 1
               /\ creq' = [creq EXCEPT ![c] = request]
               /\ model_queue' = Put(model_queue, request)
               /\ submitted' = Append(submitted, c)
               /\ session' = session \cup CallerSessionUse(c)
               /\ pc' = [pc EXCEPT ![c] = "poll"]
               /\ UNCHANGED result
    /\ UNCHANGED contexts
    /\ UNCHANGED tvars
    /\ UNCHANGED lvars
    /\ UNCHANGED <<program, model_loaded, chan, wpc, wreq, wk, all_tokens, written,
                   received, polls, taken>>

\* generate_semantic_tokens of run_simple_webui, the whole call: the request it
\* puts has no response queue (chan 0), llama_queue.put returns None, and the
\* call returns "Failed to generate semantic tokens" without reading anything.
\* Without a queue (llama_queue is None) the put raises, and the outer
\* `except Exception` returns the exception's message.
generate_semantic_tokens(c, text, temperature) ==
    /\ program = "webui"
    /\ pc[c] = "idle"
    /\ pc' = [pc EXCEPT ![c] = "returned"]
    /\ IF Strip(text) = <<>>
       THEN /\ result' = [result EXCEPT ![c] = Failure("empty_text", "")]
            /\ UNCHANGED <<model_queue, creq, session, submitted>>
       ELSE IF ~model_loaded
       THEN /\ result' = [result EXCEPT ![c] = Failure("exception", "AttributeError")]
            /\ UNCHANGED <<model_queue, creq, session, submitted>>
       ELSE LET request == [id |-> c, text |-> text, temperature |-> temperature,
                            iterative_prompt |-> FALSE, chan |-> 0]
            IN /\ creq' = [creq EXCEPT ![c] = request]
               /\ model_queue' = Put(model_queue, request)
               /\ submitted' = Append(submitted, c)
               /\ session' = session \cup CallerSessionUse(c)
               /\ result' = [result EXCEPT ![c] = Failure("no_result", "Generation failed")]
    /\ UNCHANGED contexts
    /\ UNCHANGED tvars
    /\ UNCHANGED lvars
    /\ UNCHANGED <<program, model_loaded, chan, nextChan, wpc, wreq, wk, all_tokens,
                   written, received, polls, taken>>

\* response_queue.get(timeout=...) returns an event, and the loop body runs on it.
CallerRecv(c) ==
    /\ pc[c] = "poll"
    /\ chan[creq[c].chan] # <<>>
    /\ LET e == Head(chan[creq[c].chan])
           a == Aggregate(program, all_tokens[c], e)
       IN /\ chan' = [chan EXCEPT ![creq[c].chan] = Tail(@)]
          /\ received' = [received EXCEPT ![c] = Append(@, e)]
          /\ polls' = [polls EXCEPT ![c] = Append(@, "event")]
          /\ all_tokens' = [all_tokens EXCEPT ![c] = a.tokens]
          /\ CASE a.ctl = "continue" -> UNCHANGED <<pc, result>>
               [] a.ctl = "break" ->
                    /\ pc' = [pc EXCEPT ![c] = "returned"]
                    /\ result' = [result EXCEPT ![c] = Finalize(a.tokens)]
               [] OTHER ->
                    /\ pc' = [pc EXCEPT ![c] = "returned"]
                    /\ result' = [result EXCEPT ![c] = OnError(e)]
    /\ UNCHANGED contexts
    /\ UNCHANGED tvars
    /\ UNCHANGED lvars
    /\ UNCHANGED <<program, model_loaded, model_queue, nextChan, wpc, wreq, wk, session,
                   creq, written, submitted, taken>>

\* where the Caller goes from `except queue.Empty`: it returns
\* bug variant: the Caller goes back to response_queue.get on the same channel
AfterTimeoutRetry == "poll"
AfterTimeout == "returned"

\* response_queue.get(timeout=...) raises queue.Empty: nothing arrived in time.
CallerTimeout(c) ==
    /\ pc[c] = "poll"
    /\ chan[creq[c].chan] = <<>>
    /\ HasTimeout(program)
    /\ polls' = [polls EXCEPT ![c] = Append(@, "empty")]
    /\ result' = [result EXCEPT ![c] = OnEmpty(program)]
    /\ pc' = [pc EXCEPT ![c] = AfterTimeout]
    /\ UNCHANGED contexts
    /\ UNCHANGED tvars
    /\ UNCHANGED lvars
    /\ UNCHANGED <<program, model_loaded, model_queue, chan, nextChan, wpc, wreq, wk,
                   session, creq, all_tokens, written, received, submitted, taken>>

\* ------------------------------------------------------------- the Worker
\* bug variant: the text is never split
NumSubChunksOne(text) == 1
\* the splitting rule: text longer than chunkLength is cut into ordered sub-chunks
NumSubChunks(text) ==
    IF TextLen(text) > chunk_length
    THEN (TextLen(text) + chunk_length - 1) \div chunk_length
    ELSE 1

\* tokens the session generates for sub-chunk k of request r
Tok(r, k) == 10 * r + k
\* the payloads (codes, action tag) a chunk event may carry; only
\* generate_speech_with_voice reads the action tag
Payloads(prog, r, k) ==
    IF prog = "final"
    THEN {<<<<Tok(r, k)>>, "sample">>, <<<<Tok(r, k)>>, "next">>, <<<<>>, "next">>,
          <<<<Tok(r, k)>>, "other">>}
    ELSE {<<<<Tok(r, k)>>, "-">>, <<<<>>, "-">>}

\* the Worker writes an event to a response queue (unbounded: never blocks)
Emit(ch, e) ==
    /\ ~ChannelFull(chan[ch])
    /\ chan' = [chan EXCEPT ![ch] = Append(@, e)]
    /\ written' = [written EXCEPT ![ch] = Append(@, e)]

\* takeNext(): FIFO
TakeNext(q) == Head(q)

WorkerTake ==
    /\ model_loaded
    /\ wpc = "idle"
    /\ model_queue # <<>>
    /\ wreq' = TakeNext(model_queue)
    /\ model_queue' = Tail(model_queue)
    /\ wpc' = "busy"
    /\ wk' = 0
    /\ session' = session \cup {wreq'.id}
    /\ taken' = Append(taken, wreq'.id)
    /\ UNCHANGED contexts
    /\ UNCHANGED tvars
    /\ UNCHANGED lvars
    /\ UNCHANGED <<program, model_loaded, chan, nextChan, pc, creq, all_tokens, result,
                   written, received, polls, submitted>>

\* where the Worker goes after an error event
\* bug variant: the Worker goes on with the same request after the error
AfterErrorBusy == "busy"
\* bug variant: the Worker leaves its loop after the error
AfterErrorCrashed == "crashed"
AfterError == "idle"
\* where the Worker goes after a done event
AfterDone == "idle"

\* the session accepts the sampling parameters of the request
ValidParameters(request) == request.temperature > 0

\* the conditioning context of the next generation call: the accumulated output
\* of the sub-chunks generated so far when iterative_prompt is set
\* bug variant: nothing is fed back
ContextNone(request, outputs) == <<>>
Context(request, outputs) ==
    IF request.iterative_prompt THEN outputs ELSE <<>>

\* the outputs of the sub-chunks generated so far for the request in hand
Outputs == [i \in DOMAIN written[wreq.chan] |-> written[wreq.chan][i].codes]

\* generate the next sub-chunk and emit its chunk event
WorkerChunk ==
    /\ wpc = "busy"
    /\ wreq.chan \in ChanIds
    /\ wk < NumSubChunks(wreq.text)
    /\ ValidParameters(wreq)
    /\ \E p \in Payloads(program, wreq.id, wk + 1) :
          Emit(wreq.chan, ChunkEvent(wreq.id, p[1], p[2]))
    /\ wk' = wk + 1
    /\ contexts' = [contexts EXCEPT ![wreq.id] = Append(@, Context(wreq, Outputs))]
    /\ UNCHANGED tvars
    /\ UNCHANGED lvars
    /\ UNCHANGED <<program, model_loaded, model_queue, nextChan, wpc, wreq, session, pc,
                   creq, all_tokens, result, received, polls, submitted, taken>>

\* after the last sub-chunk, emit done
WorkerDone ==
    /\ wpc = "busy"
    /\ wreq.chan \in ChanIds
    /\ wk = NumSubChunks(wreq.text)
    /\ Emit(wreq.chan, DoneEvent(wreq.id))
    /\ wpc' = AfterDone
    /\ wreq' = NoRequest
    /\ wk' = 0
    /\ session' = session \ {wreq.id}
    /\ UNCHANGED contexts
    /\ UNCHANGED tvars
    /\ UNCHANGED lvars
    /\ UNCHANGED <<program, model_loaded, model_queue, nextChan, pc, creq, all_tokens,
                   result, received, polls, submitted, taken>>

\* the session raises while generating a sub-chunk: one error event, request dropped
WorkerFail ==
    /\ wpc = "busy"
    /\ wreq.chan \in ChanIds
    /\ wk < NumSubChunks(wreq.text)
    /\ Emit(wreq.chan, ErrorEvent(wreq.id, IF ValidParameters(wreq) THEN "SessionFailure"
                                            ELSE "InvalidParameters"))
    /\ wpc' = AfterError
    /\ wreq' = IF AfterError = "idle" THEN NoRequest ELSE wreq
    /\ wk' = IF AfterError = "idle" THEN 0 ELSE wk
    /\ session' = IF AfterError = "idle" THEN session \ {wreq.id} ELSE session
    /\ contexts' = [contexts EXCEPT ![wreq.id] = Append(@, Context(wreq, Outputs))]
    /\ UNCHANGED tvars
    /\ UNCHANGED lvars
    /\ UNCHANGED <<program, model_loaded, model_queue, nextChan, pc, creq, all_tokens,
                   result, received, polls, submitted, taken>>

\* a request that came without a response queue: there is no channel to write
\* an event to; the Worker drops the request and stays in its loop
WorkerNoChannel ==
    /\ wpc = "busy"
    /\ wreq.chan \notin ChanIds
    /\ wpc' = AfterError
    /\ wreq' = IF AfterError = "idle" THEN NoRequest ELSE wreq
    /\ wk' = IF AfterError = "idle" THEN 0 ELSE wk
    /\ session' = IF AfterError = "idle" THEN session \ {wreq.id} ELSE session
    /\ UNCHANGED contexts
    /\ UNCHANGED tvars
    /\ UNCHANGED lvars
    /\ UNCHANGED <<program, model_loaded, model_queue, chan, nextChan, pc, creq,
                   all_tokens, result, written, received, polls, submitted, taken>>

Worker == WorkerTake \/ WorkerChunk \/ WorkerDone \/ WorkerFail \/ WorkerNoChannel

\* --------------------------------------------- External TTS Client (call_tts)
Schemas == {"references", "legacy", "multipart", "plain"}
ProviderAnswers == {"accept", "reject", "error", "raise"}

\* reference audio as the code points of its base64 text: "UklGRg==" (the
\* bytes "RIFF"), the same without its padding, and "UklGR"
PaddedAudio == <<85, 107, 108, 71, 82, 103, 61, 61>>
UnpaddedAudio == <<85, 107, 108, 71, 82, 103>>
TruncatedAudio == <<85, 107, 108, 71, 82>>

\* arguments of call_tts; "" and <<>> stand for None or the empty string, both
\* falsy
TtsInputs ==
    [api_key : {"", "key"}, text : {BlankText, ShortText}, voice_id : {"", "voice"},
     ref_audio_b64 : {<<>>, PaddedAudio, UnpaddedAudio, TruncatedAudio},
     ref_text : {"", "transcript"}]
NoInput == [api_key |-> "", text |-> <<>>, voice_id |-> "", ref_audio_b64 |-> <<>>,
            ref_text |-> ""]

\* A-Z, a-z, 0-9, + and /
Base64Alphabet == (65..90) \cup (97..122) \cup (48..57) \cup {43, 47}

\* the scan of binascii.a2b_base64 without strict mode: characters outside the
\* alphabet are skipped, a pad sequence that completes a quad ends the data,
\* and the data must not end inside a quad; TRUE when no error is raised
RECURSIVE B64Scan(_, _, _)
B64Scan(s, quad_pos, pads) ==
    IF s = <<>> THEN quad_pos = 0
    ELSE IF Head(s) = 61
    THEN IF quad_pos >= 2 /\ quad_pos + pads + 1 >= 4
         THEN TRUE
         ELSE B64Scan(Tail(s), quad_pos, IF quad_pos >= 2 THEN pads + 1 ELSE pads)
    ELSE IF Head(s) \notin Base64Alphabet
    THEN B64Scan(Tail(s), quad_pos, pads)
    ELSE B64Scan(Tail(s), (quad_pos + 1) % 4, 0)

\* base64.b64decode(ref_audio_b64) returns: a str argument must be ASCII, and
\* the scan must not raise binascii.Error
B64Valid(b64) == (\A i \in DOMAIN b64 : b64[i] < 128) /\ B64Scan(b64, 0, 0)

\* if ref_audio_b64 and ref_text
HasReference(in) == in.ref_audio_b64 # <<>> /\ in.ref_text # ""

\* a request body; voice_id "" and reference <<>> mean that the key is absent
Body(schema, text, voice_id, reference) ==
    [schema |-> schema, text |-> text, voice_id |-> voice_id, reference |-> reference]
Reference(in) == <<in.ref_audio_b64, in.ref_text>>
Payload(in) == Body("plain", in.text, in.voice_id, <<>>)
PrimaryPayload(in) ==
    IF HasReference(in) THEN Body("references", in.text, "", Reference(in)) ELSE Payload(in)
\* bug variant: the second attempt repeats the references[] schema
FallbackPayloadSame(in) == PrimaryPayload(in)
FallbackPayload(in) == Body("legacy", in.text, "", Reference(in))
MultipartData(in) == Body("multipart", in.text, in.voice_id, Reference(in))

\* a requests.Response, or the exception that requests.post raised
Response(status_code, content, text) ==
    [raised |-> FALSE, status_code |-> status_code, content |-> content, text |-> text]
Raised == [raised |-> TRUE, status_code |-> 0, content |-> <<>>, text |-> <<"ConnectionError">>]
NoResponse == [raised |-> FALSE, status_code |-> 0, content |-> <<>>, text |-> <<>>]

\* what the provider answers to a request of the given schema
Post(body) ==
    CASE provider[body.schema] = "accept" -> Response(200, <<"audio for ", body.schema>>, <<>>)
      [] provider[body.schema] = "reject" -> Response(400, <<>>, <<"bad request: ", body.schema>>)
      [] provider[body.schema] = "error"  -> Response(500, <<>>, <<"server error: ", body.schema>>)
      [] OTHER -> Raised

\* str(d) of one decimal digit
Digit(d) == <<"0", "1", "2", "3", "4", "5", "6", "7", "8", "9">>[d + 1]

\* str(n) of a natural number, one character per element
RECURSIVE Str(_)
Str(n) == IF n < 10 THEN <<Digit(n)>> ELSE Str(n \div 10) \o <<Digit(n % 10)>>

TtsFailure(message) == [none |-> TRUE, audio |-> <<>>, message |-> message]
TtsSuccess(content) == [none |-> FALSE, audio |-> content, message |-> <<>>]
NoTtsResult == [none |-> TRUE, audio |-> <<>>, message |-> <<"-">>]

\* bug variant: the provider's body is left out of the message
ApiMessageNoBody(r) == <<"API ">> \o Str(r.status_code) \o <<": ">>
\* f"API {r.status_code}: {r.text}"
ApiMessage(r) == <<"API ">> \o Str(r.status_code) \o <<": ">> \o r.text

\* bug variant: the next schema is tried whatever the status
RejectedAlways(r) == TRUE
\* r.status_code != 200
Rejected(r) == r.status_code # 200

\* the checks and the payload construction before the try block
TtsStart(in) ==
    /\ tts_pc = "idle"
    /\ tts_in' = in
    /\ IF in.api_key = ""
       THEN /\ tts_result' = TtsFailure(<<"Missing API key">>)
            /\ tts_pc' = "returned"
       ELSE IF Strip(in.text) = <<>>
       THEN /\ tts_result' = TtsFailure(<<"Enter text">>)
            /\ tts_pc' = "returned"
       ELSE /\ tts_pc' = IF HasReference(in) THEN "attempt1" ELSE "plain"
            /\ UNCHANGED tts_result
    /\ UNCHANGED <<provider, tts_r, sent>>
    /\ UNCHANGED qvars
    /\ UNCHANGED lvars

\* a requests.post inside the outer try: an exception ends the call with str(e)
PostOuter(body, onRejected) ==
    /\ sent' = Append(sent, body)
    /\ IF Post(body).raised
       THEN /\ tts_result' = TtsFailure(Post(body).text)
            /\ tts_pc' = "returned"
            /\ UNCHANGED tts_r
       ELSE /\ tts_r' = Post(body)
            /\ tts_pc' = IF Rejected(Post(body)) THEN onRejected ELSE "status"
            /\ UNCHANGED tts_result
    /\ UNCHANGED <<provider, tts_in>>
    /\ UNCHANGED qvars
    /\ UNCHANGED lvars

\* Attempt 1: JSON with references[] schema
Attempt1 ==
    /\ tts_pc = "attempt1"
    /\ PostOuter(PrimaryPayload(tts_in), "attempt2")

\* Attempt 2: legacy JSON with reference_audio / reference_text fields
Attempt2 ==
    /\ tts_pc = "attempt2"
    /\ PostOuter(FallbackPayload(tts_in), "attempt3")

\* r after attempt 3: the answer, or the previous r when the post raised
\* bug variant: the exception of attempt 3 becomes r
AfterAttempt3Raised(r, out) == out
AfterAttempt3(r, out) == IF out.raised THEN r ELSE out

\* Attempt 3: multipart/form-data, inside its own try / except Exception: pass
Attempt3 ==
    /\ tts_pc = "attempt3"
    /\ IF ~B64Valid(tts_in.ref_audio_b64)
       THEN UNCHANGED <<sent, tts_r>>
       ELSE /\ sent' = Append(sent, MultipartData(tts_in))
            /\ tts_r' = AfterAttempt3(tts_r, Post(MultipartData(tts_in)))
    /\ tts_pc' = "status"
    /\ UNCHANGED <<provider, tts_in, tts_result>>
    /\ UNCHANGED qvars
    /\ UNCHANGED lvars

\* the single request made when no reference audio and text are given
AttemptPlain ==
    /\ tts_pc = "plain"
    /\ PostOuter(Payload(tts_in), "status")

\* if r.status_code == 200: return r.content, "" / return None, f"API ..."
TtsReturn ==
    /\ tts_pc = "status"
    /\ tts_result' = IF tts_r.status_code = 200
                     THEN TtsSuccess(tts_r.content)
                     ELSE TtsFailure(ApiMessage(tts_r))
    /\ tts_pc' = "returned"
    /\ UNCHANGED <<provider, tts_in, tts_r, sent>>
    /\ UNCHANGED qvars
    /\ UNCHANGED lvars

\* --------------------------------------- the aggregation loops on a timed feed
\* seconds between two successive events of a feed: just under the shorter
\* timeout, between the two timeouts, and the longer timeout
Gaps == {TimeoutFixed - 1, TimeoutFixed, TimeoutSimple}
FeedEvents == {ChunkEvent(1, <<Tok(1, 1)>>, "next"), ChunkEvent(1, <<Tok(1, 2)>>, "sample"),
               DoneEvent(1), ErrorEvent(1, "SessionFailure")}
\* item i: the event e is put on the channel gap seconds after item i-1 (after
\* the submission for i = 1); after the last item nothing arrives any more
FeedItems == [gap : Gaps, e : FeedEvents]
Feeds == UNION {[1..n -> FeedItems] : n \in 0..MaxFeed}

\* reads: what each response_queue.get so far gave, <<e>> for the event e and
\* <<>> for queue.Empty
LoopStart == [at |-> 1, tokens |-> <<>>, elapsed |-> 0, pc |-> "poll", result |-> NoResult,
              reads |-> <<>>]

\* response_queue.get(timeout=T) is called anew in every iteration of
\* `while True`. It can raise queue.Empty when nothing arrived less than T
\* seconds after this call, and it can return an event that arrived at most T
\* seconds after this call: for an event that arrives exactly T seconds after
\* the call, the put and the expiry of the wait race, and either can happen.
\* bug variant: one deadline for the whole request
ReadTimesOutPerRequest(timeout, sinceRead, sinceSubmit) == sinceSubmit >= timeout
ReadTimesOut(timeout, sinceRead, sinceSubmit) == sinceRead >= timeout
ReadReturns(timeout, sinceRead) == sinceRead <= timeout

\* one iteration of `while True` of the loop of script p on the feed
LoopStep(p) ==
    LET st == loop[p]
        T == PollTimeout(p)
        has == st.at <= Len(feed)
        gap == IF has THEN feed[st.at].gap ELSE T
        a == Aggregate(p, st.tokens, feed[st.at].e)
    IN /\ st.pc = "poll"
       /\ HasTimeout(p)
       /\ \E empty \in BOOLEAN :
             /\ empty => ~has \/ ReadTimesOut(T, gap, st.elapsed + gap)
             /\ ~empty => has /\ ReadReturns(T, gap)
             /\ loop' = [loop EXCEPT ![p] =
                   IF empty
                   THEN [st EXCEPT !.at = @ + 1,
                                   !.elapsed = @ + (IF gap < T THEN gap ELSE T),
                                   !.pc = AfterTimeout, !.result = OnEmpty(p),
                                   !.reads = Append(@, <<>>)]
                   ELSE [st EXCEPT !.at = @ + 1, !.elapsed = @ + gap, !.tokens = a.tokens,
                                   !.pc = IF a.ctl = "continue" THEN "poll" ELSE "returned",
                                   !.result = CASE a.ctl = "continue" -> st.result
                                                [] a.ctl = "break" -> Finalize(a.tokens)
                                                [] OTHER -> OnError(feed[st.at].e),
                                   !.reads = Append(@, <<feed[st.at].e>>)]]
       /\ UNCHANGED feed
       /\ UNCHANGED qvars
       /\ UNCHANGED tvars

LoopFinal == LoopStep("final")
LoopSimple == LoopStep("simple")
LoopFixed == LoopStep("fixed")

\* ------------------------------------------------------------ specification
\* nothing submitted, the Worker waiting
QueueIdle ==
    /\ model_queue = <<>>
    /\ chan = [ch \in ChanIds |-> <<>>]
    /\ nextChan = 0
    /\ wpc = "idle"
    /\ wreq = NoRequest
    /\ wk = 0
    /\ session = {}
    /\ pc = [c \in Callers |-> "idle"]
    /\ creq = [c \in Callers |-> NoRequest]
    /\ all_tokens = [c \in Callers |-> <<>>]
    /\ result = [c \in Callers |-> NoResult]
    /\ written = [ch \in ChanIds |-> <<>>]
    /\ received = [c \in Callers |-> <<>>]
    /\ polls = [c \in Callers |-> <<>>]
    /\ submitted = <<>>
    /\ taken = <<>>
    /\ contexts = [c \in Callers |-> <<>>]

\* call_tts not called yet
TtsIdle ==
    /\ tts_pc = "idle"
    /\ tts_in = NoInput
    /\ tts_r = NoResponse
    /\ tts_result = NoTtsResult
    /\ sent = <<>>

\* no feed given
LoopIdle ==
    /\ feed = <<>>
    /\ loop = [p \in Programs |-> LoopStart]

Init ==
    /\ program \in Scripts
    /\ model_loaded \in BOOLEAN
    /\ QueueIdle
    /\ provider = [s \in Schemas |-> "accept"]
    /\ TtsIdle
    /\ LoopIdle

Start == \E c \in Callers, in \in Inputs(program) : CallerStart(c, in[1], in[2], in[3])
StartTokens ==
    \E c \in Callers, in \in Inputs(program) : generate_semantic_tokens(c, in[1], in[3])
Recv == \E c \in Callers : CallerRecv(c)
Timeout == \E c \in Callers : CallerTimeout(c)

Next ==
    \/ Start \/ StartTokens \/ Recv \/ Timeout
    \/ WorkerTake \/ WorkerChunk \/ WorkerDone \/ WorkerFail \/ WorkerNoChannel

Spec == Init /\ [][Next]_vars

\* the specification with the Worker thread scheduled fairly and every call into
\* the session returning or raising
FairSpec == Spec /\ WF_vars(Worker)

\* the External TTS Client on its own, against any provider
TtsInit ==
    /\ program = "final"
    /\ model_loaded = FALSE
    /\ QueueIdle
    /\ provider \in [Schemas -> ProviderAnswers]
    /\ TtsIdle
    /\ LoopIdle

Call == \E in \in TtsInputs : TtsStart(in)

TtsNext == Call \/ Attempt1 \/ Attempt2 \/ Attempt3 \/ AttemptPlain \/ TtsReturn

TtsSpec == TtsInit /\ [][TtsNext]_vars

\* the three aggregation loops on their own, each run on the same feed
LoopInit ==
    /\ program = "final"
    /\ model_loaded = FALSE
    /\ QueueIdle
    /\ provider = [s \in Schemas |-> "accept"]
    /\ TtsIdle
    /\ feed \in Feeds
    /\ loop = [p \in Programs |-> LoopStart]

LoopNext == LoopFinal \/ LoopSimple \/ LoopFixed

LoopSpec == LoopInit /\ [][LoopNext]_vars

\* -------------------------------------------------------------- properties
\* the code points Python counts as whitespace, written out
WhitespaceCodes ==
    {9, 10, 11, 12, 13, 28, 29, 30, 31, 32, 133, 160, 5760, 8192, 8193, 8194,
     8195, 8196, 8197, 8198, 8199, 8200, 8201, 8202, 8232, 8233, 8239, 8287,
     12288}

Last(s) == s[Len(s)]
Submitted == {submitted[i] : i \in DOMAIN submitted}
Taken == {taken[i] : i \in DOMAIN taken}
\* the events written for the request of c; none when c has no channel
WrittenOf(c) == IF creq[c].chan \notin ChanIds THEN <<>> ELSE written[creq[c].chan]
\* the requests that were submitted together with a response queue
WithChannel == {c \in Callers : creq[c].chan \in ChanIds}
TerminalIdx(s) == {i \in DOMAIN s : IsTerminal(s[i])}
HasTerminal(s) == TerminalIdx(s) # {}
\* the Worker has taken the request of c and is no longer processing it
Finished(c) == c \in Taken /\ wreq.id # c

\* C1: on every channel a terminal event (done or error) is the last event ever
\* written, and once the Worker is through with a request that has a channel,
\* the channel holds exactly one terminal event.
C1_OneTerminalLast ==
    /\ \A ch \in ChanIds : \A i \in TerminalIdx(written[ch]) : i = Len(written[ch])
    /\ \A c \in WithChannel : Finished(c) => Cardinality(TerminalIdx(WrittenOf(c))) = 1

C1_Witness ==
    \E a, b \in Callers :
        /\ a # b /\ Finished(a) /\ Finished(b)
        /\ Len(WrittenOf(a)) = 3 /\ IsDone(Last(WrittenOf(a)))
        /\ Len(WrittenOf(b)) = 2 /\ IsError(Last(WrittenOf(b)))

\* C2: under Worker fairness every request submitted with a channel eventually
\* has a terminal event written to its channel, whether or not earlier requests
\* failed.
C2_EventuallyTerminal ==
    \A c \in Callers : (c \in Submitted /\ c \in WithChannel) ~> HasTerminal(WrittenOf(c))

C2_Witness ==
    \E a, b \in Callers :
        /\ taken = <<a, b>>
        /\ WrittenOf(a) # <<>>
        /\ IsError(Last(WrittenOf(a)))
        /\ HasTerminal(WrittenOf(b))

\* C3: the Worker takes requests in submission order, and when it takes a request
\* it is through with every request submitted before it, whose channel, when it
\* has one, already has its terminal event written.
C3_FIFO ==
    \A j \in DOMAIN taken :
        /\ taken[j] = submitted[j]
        /\ \A i \in 1..(j - 1) :
              /\ Finished(submitted[i])
              /\ submitted[i] \in WithChannel => HasTerminal(WrittenOf(submitted[i]))

C3_Witness ==
    /\ Len(taken) = 2
    /\ wpc = "busy"
    /\ wk = 0

\* C4: at most one request executes against the inference session, and only the
\* request the Worker is processing does.
C4_SessionExclusive ==
    /\ Cardinality(session) <= 1
    /\ session \subseteq {wreq.id}
    /\ wpc = "busy" <=> session # {}

C4_Witness ==
    /\ Cardinality(session) = 1
    /\ model_queue # <<>>
    /\ \A c \in Callers : pc[c] = "poll"

\* C5: an error event is the only error and the last event of its channel, the
\* Worker drops the failed request and stays in its loop, and the request at the
\* head of the queue is then taken.
C5_ErrorThenNext ==
    /\ [](\A ch \in ChanIds : \A i \in DOMAIN written[ch] :
            IsError(written[ch][i]) =>
                /\ i = Len(written[ch])
                /\ Cardinality({j \in DOMAIN written[ch] : IsError(written[ch][j])}) = 1)
    /\ [](wpc \in {"idle", "busy"})
    /\ [](\A c \in Callers :
            (WrittenOf(c) # <<>> /\ IsError(Last(WrittenOf(c)))) => wreq.id # c)
    /\ \A a, b \in Callers :
          (/\ WrittenOf(a) # <<>> /\ IsError(Last(WrittenOf(a)))
           /\ model_queue # <<>> /\ Head(model_queue).id = b) ~> (b \in Taken)

C5_Witness ==
    \E a, b \in Callers :
        /\ taken = <<a, b>>
        /\ Len(WrittenOf(a)) = 2
        /\ IsChunk(WrittenOf(a)[1]) /\ IsError(WrittenOf(a)[2])
        /\ wreq.id = b /\ wk = 1

\* C6: every submission has a channel of its own: distinct submissions have
\* distinct channels; a channel carries only events of its own request; a Caller
\* is delivered exactly the events written to its own channel, in order, and
\* accumulates only tokens of its own request.
C6_Independent ==
    /\ \A c \in Submitted : creq[c].chan \in ChanIds
    /\ \A a, b \in Submitted : a # b => creq[a].chan # creq[b].chan
    /\ \A c \in WithChannel :
          /\ \A i \in DOMAIN WrittenOf(c) : WrittenOf(c)[i].req = c
          /\ received[c] \o chan[creq[c].chan] = WrittenOf(c)
          /\ \A i \in DOMAIN all_tokens[c] :
                \E k \in 1..NumSubChunks(creq[c].text) : all_tokens[c][i] = Tok(c, k)

\* C7: a read that finds nothing within the poll timeout ends the call with the
\* timed-out failure as a value: no file path, no tokens, the timeout message.
C7_TimeoutIsValue ==
    \A c \in Callers :
        (polls[c] # <<>> /\ Last(polls[c]) = "empty") =>
            /\ pc[c] = "returned"
            /\ result[c].path = "None"
            /\ result[c].kind = "timeout"
            /\ result[c].tokens = <<>>

C7_Witness ==
    \E c \in Callers :
        /\ polls[c] = <<"event", "empty">>
        /\ all_tokens[c] # <<>>
        /\ pc[c] = "returned"

CallerFairSpec == Spec /\ \A c \in Callers : WF_vars(CallerRecv(c) \/ CallerTimeout(c))

\* C9: whatever the Worker does, a Caller that is polling eventually returns
\* success with a payload or a failure with a message.
C9_CallerReturns ==
    \A c \in Callers :
        (pc[c] = "poll") ~>
            (/\ pc[c] = "returned"
             /\ \/ result[c].kind = "success" /\ result[c].tokens # <<>>
                \/ result[c].kind \in {"timeout", "generation_failed", "no_tokens"}
                   /\ result[c].path = "None")

C9_Witness ==
    \E c \in Callers :
        /\ c \in Submitted
        /\ c \notin Taken
        /\ pc[c] = "returned"
        /\ result[c].kind = "timeout"

\* C10: a success result carries the concatenation, in order, of the payloads of
\* all chunk events the Worker wrote for the request.
C10_NoSilentTruncation ==
    \A c \in Callers :
        result[c].kind = "success" => result[c].tokens = ConcatCodes(WrittenOf(c))

\* C11: for a request whose text is longer than chunk_length and whose
\* generation ended with done, the channel holds one chunk event per sub-chunk
\* of the splitting rule, the i-th carrying the tokens of the i-th sub-chunk,
\* and then done.
C11_Chunking ==
    \A c \in Callers :
        (/\ Finished(c)
         /\ WrittenOf(c) # <<>>
         /\ IsDone(Last(WrittenOf(c)))
         /\ TextLen(creq[c].text) > chunk_length)
        => LET w == WrittenOf(c)
               n == (TextLen(creq[c].text) + chunk_length - 1) \div chunk_length
           IN /\ Len(w) = n + 1
              /\ \A i \in 1..n :
                    /\ IsChunk(w[i])
                    /\ \E p \in Payloads(program, c, i) : w[i].codes = p[1]

C11_Witness ==
    \E c \in Callers :
        /\ Finished(c)
        /\ TextLen(creq[c].text) > chunk_length
        /\ Len(WrittenOf(c)) = MaxSubChunks + 1
        /\ IsDone(Last(WrittenOf(c)))
        /\ \A i \in 1..MaxSubChunks : WrittenOf(c)[i].codes = <<Tok(c, i)>>

\* the request of c is valid, not longer than chunk_length, was generated to
\* done, and the Caller returned without a timed-out read
ShortServed(c) ==
    /\ c \in Submitted
    /\ TextLen(creq[c].text) <= chunk_length
    /\ creq[c].temperature > 0
    /\ Finished(c)
    /\ WrittenOf(c) # <<>>
    /\ IsDone(Last(WrittenOf(c)))
    /\ pc[c] = "returned"
    /\ result[c].kind # "timeout"

\* C12 as stated: for a valid request not longer than chunk_length whose
\* generation succeeds, the channel carries one chunk then done and the Caller's
\* payload is non-empty.
C12_OneChunkNonEmpty ==
    \A c \in Callers :
        ShortServed(c) =>
            /\ Len(WrittenOf(c)) = 2
            /\ IsChunk(WrittenOf(c)[1])
            /\ result[c].kind = "success"
            /\ result[c].tokens # <<>>

\* C12 amended: the channel carries one chunk then done; the Caller's payload is
\* that chunk's tokens when it carries any, and the Caller reports that no
\* tokens were generated when the chunk's payload is empty.
C12_OneChunk ==
    \A c \in Callers :
        ShortServed(c) =>
            /\ Len(WrittenOf(c)) = 2
            /\ IsChunk(WrittenOf(c)[1])
            /\ IF WrittenOf(c)[1].codes # <<>>
               THEN result[c] = Success(WrittenOf(c)[1].codes)
               ELSE result[c].kind = "no_tokens" /\ result[c].path = "None"

C12_Witness ==
    \E c \in Callers :
        /\ ShortServed(c)
        /\ result[c].kind = "success"
        /\ received[c] = WrittenOf(c)

\* C13: no request with temperature 0 is ever on the Generation Queue or with the
\* Worker.
C13_RejectedBeforeEnqueue ==
    /\ \A i \in DOMAIN model_queue : model_queue[i].temperature > 0
    /\ wpc = "busy" => wreq.temperature > 0

\* C14: a call with an empty or whitespace-only text fails at once and leaves the
\* queue alone: no request and no channel exist for it, every queued request has
\* a text with a non-whitespace character, and channels and queue entries exist
\* only for submissions (generate_semantic_tokens never creates a channel).
C14_BlankTextNotEnqueued ==
    /\ \A c \in Callers :
          result[c].kind = "empty_text" =>
              /\ pc[c] = "returned" /\ result[c].path = "None"
              /\ creq[c] = NoRequest
              /\ c \notin Submitted
    /\ \A c \in Submitted :
          \E i \in DOMAIN creq[c].text : creq[c].text[i].ch \notin WhitespaceCodes
    /\ nextChan = IF program = "webui" THEN 0 ELSE Len(submitted)
    /\ Len(model_queue) + Len(taken) = Len(submitted)

C14_Witness ==
    \E c, d \in Callers :
        /\ result[c].kind = "empty_text"
        /\ model_queue # <<>>
        /\ Head(model_queue).id = d
        /\ nextChan = 1

\* C15: after an error event the Caller has returned the failure that carries the
\* error's message, with no file and no tokens, whatever it had buffered.
C15_ErrorDiscardsPartial ==
    \A c \in Callers :
        (received[c] # <<>> /\ IsError(Last(received[c]))) =>
            /\ pc[c] = "returned"
            /\ result[c].path = "None"
            /\ result[c].kind = "generation_failed"
            /\ result[c].detail = Last(received[c]).detail
            /\ result[c].tokens = <<>>

C15_Witness ==
    \E c \in Callers :
        /\ Len(received[c]) = MaxSubChunks
        /\ IsError(Last(received[c]))
        /\ all_tokens[c] # <<>>
        /\ pc[c] = "returned"

\* C16: the result of a timed-out read differs from the result of every error
\* event, and like it has no file and no tokens.
C16_TimeoutDistinct ==
    \A c \in Callers :
        (polls[c] # <<>> /\ Last(polls[c]) = "empty") =>
            /\ result[c].path = "None" /\ result[c].tokens = <<>>
            /\ \A msg \in {"SessionFailure", "InvalidParameters"} :
                  result[c] # OnError(ErrorEvent(c, msg))
            /\ \A d \in Callers :
                  (received[d] # <<>> /\ IsError(Last(received[d]))) =>
                      result[d] # result[c]

C16_Witness ==
    \E c, d \in Callers :
        /\ polls[c] # <<>> /\ Last(polls[c]) = "empty"
        /\ received[d] # <<>> /\ IsError(Last(received[d]))
        /\ pc[c] = "returned" /\ pc[d] = "returned"

\* C17: when done arrives with an empty buffer the Caller returns the
\* no-tokens failure, which differs from the timeout result and from every
\* error result; success always has tokens.
C17_NoContentDistinct ==
    \A c \in Callers :
        /\ (/\ received[c] # <<>> /\ IsDone(Last(received[c]))
            /\ all_tokens[c] = <<>>) =>
              /\ pc[c] = "returned"
              /\ result[c].kind = "no_tokens" /\ result[c].path = "None"
              /\ result[c] # OnEmpty(program)
              /\ \A msg \in {"SessionFailure", "InvalidParameters"} :
                    result[c] # OnError(ErrorEvent(c, msg))
        /\ result[c].kind = "success" => result[c].tokens # <<>>

C17_Witness ==
    \E c \in Callers :
        /\ Len(received[c]) = MaxSubChunks + 1
        /\ IsDone(Last(received[c]))
        /\ all_tokens[c] = <<>>
        /\ pc[c] = "returned"

\* ----------------------------------------- properties of the External TTS Client
\* the three schema variants in their priority order
Variant == <<"references", "legacy", "multipart">>
Rejections == {"reject", "error"}
\* call_tts got an API key, a text that is not blank, and reference audio (valid
\* base64) with its transcript
CloningCall ==
    /\ tts_in.api_key # ""
    /\ \E i \in DOMAIN tts_in.text : tts_in.text[i].ch \notin WhitespaceCodes
    /\ tts_in.ref_audio_b64 = <<85, 107, 108, 71, 82, 103, 61, 61>>
    /\ tts_in.ref_text # ""

\* C18: with reference audio and text, against a provider that rejects the
\* references[] schema and the legacy schema and accepts the multipart schema,
\* call_tts makes exactly three requests, in the order references[], legacy,
\* multipart, and returns the audio bytes of the third answer with an empty
\* message.
C18_ThirdSchemaAccepted ==
    (/\ CloningCall
     /\ provider["references"] \in Rejections
     /\ provider["legacy"] \in Rejections
     /\ provider["multipart"] = "accept")
    => /\ Len(sent) <= 3
       /\ tts_pc = "returned" =>
             /\ Len(sent) = 3
             /\ sent[1].schema = "references"
             /\ sent[2].schema = "legacy"
             /\ sent[3].schema = "multipart"
             /\ tts_result = [none |-> FALSE, audio |-> <<"audio for ", "multipart">>,
                              message |-> <<>>]

C18_Witness ==
    /\ CloningCall
    /\ provider["references"] = "reject"
    /\ provider["legacy"] = "error"
    /\ provider["multipart"] = "accept"
    /\ tts_pc = "returned"
    /\ Len(sent) = 3
    /\ ~tts_result.none

\* C19: in a cloning call the k-th request uses the k-th variant, it is made
\* only after every earlier variant got an answer with a status other than 200,
\* and when variant k is the first one the provider accepts, call_tts returns
\* after exactly k requests with the audio of variant k.
C19_OrderedShortCircuit ==
    CloningCall =>
        /\ Len(sent) <= 3
        /\ \A i \in DOMAIN sent :
              /\ sent[i].schema = Variant[i]
              /\ \A j \in 1..(i - 1) : provider[Variant[j]] \in Rejections
        /\ \A k \in 1..3 :
              (/\ tts_pc = "returned"
               /\ provider[Variant[k]] = "accept"
               /\ \A j \in 1..(k - 1) : provider[Variant[j]] \in Rejections)
              => /\ Len(sent) = k
                 /\ ~tts_result.none
                 /\ tts_result.audio = <<"audio for ", Variant[k]>>

C19_Witness ==
    /\ CloningCall
    /\ provider["references"] = "reject"
    /\ provider["legacy"] = "accept"
    /\ provider["multipart"] = "accept"
    /\ tts_pc = "returned"
    /\ Len(sent) = 2
    /\ tts_result.audio = <<"audio for ", "legacy">>

\* C20: in a cloning call against a provider that rejects all three variants,
\* call_tts returns no audio and the message "API <status>: <body>" made of the
\* status code and the body of the answer to the third, multipart, request.
C20_ExhaustedReportsLast ==
    (/\ CloningCall
     /\ \A k \in 1..3 : provider[Variant[k]] \in Rejections
     /\ tts_pc = "returned")
    => /\ Len(sent) = 3
       /\ sent[3].schema = "multipart"
       /\ tts_result.none
       /\ tts_result.audio = <<>>
       /\ tts_result.message =
             IF provider["multipart"] = "reject"
             THEN <<"API ", "4", "0", "0", ": ", "bad request: ", "multipart">>
             ELSE <<"API ", "5", "0", "0", ": ", "server error: ", "multipart">>

C20_Witness ==
    /\ CloningCall
    /\ provider["references"] = "reject"
    /\ provider["legacy"] = "reject"
    /\ provider["multipart"] = "error"
    /\ tts_pc = "returned"
    /\ tts_result.message = <<"API ", "5", "0", "0", ": ", "server error: ", "multipart">>

\* C22: no request posted by call_tts carries a voice_id together with the
\* reference audio and its transcript.
C22_VoiceReferenceExclusive ==
    \A i \in DOMAIN sent : ~(sent[i].voice_id # "" /\ sent[i].reference # <<>>)

\* call_tts got an API key, a text that is not blank and a reference, the first
\* two attempts were answered with a status other than 200, and the third
\* raised: b64decode of the reference audio, or requests.post
ThirdAttemptRaised ==
    /\ tts_in.api_key # ""
    /\ \E i \in DOMAIN tts_in.text : tts_in.text[i].ch \notin WhitespaceCodes
    /\ tts_in.ref_audio_b64 # <<>> /\ tts_in.ref_text # ""
    /\ provider["references"] \in Rejections
    /\ provider["legacy"] \in Rejections
    /\ \/ tts_in.ref_audio_b64 \in {<<85, 107, 108, 71, 82, 103>>, <<85, 107, 108, 71, 82>>}
       \/ provider["multipart"] = "raise"

\* C30: when attempt 3 raises, call_tts returns no audio and the message
\* "API <status>: <body>" of the answer to attempt 2; nothing of the exception
\* is in the outcome.
C30_ThirdAttemptSwallowed ==
    (ThirdAttemptRaised /\ tts_pc = "returned")
    => /\ tts_result.none
       /\ tts_result.audio = <<>>
       /\ tts_result.message =
             IF provider["legacy"] = "reject"
             THEN <<"API ", "4", "0", "0", ": ", "bad request: ", "legacy">>
             ELSE <<"API ", "5", "0", "0", ": ", "server error: ", "legacy">>
       /\ \A i \in DOMAIN tts_result.message : tts_result.message[i] # "ConnectionError"

C30_Witness ==
    /\ ThirdAttemptRaised
    /\ tts_in.ref_audio_b64 = <<85, 107, 108, 71, 82, 103, 61, 61>>
    /\ provider["legacy"] = "error"
    /\ tts_pc = "returned"
    /\ Len(sent) = 3
    /\ sent[3].schema = "multipart"

\* number of positions of the sequence s that hold x
Count(s, x) == Cardinality({i \in DOMAIN s : s[i] = x})
QueuedIds == [i \in DOMAIN model_queue |-> model_queue[i].id]

\* C21: the Worker is never held up by a Caller: whatever the Callers have read
\* or not read, a Worker busy with a request that has a channel can write its
\* next event, and an idle Worker can take the next queued request.
C21_WorkerNeverWaits ==
    /\ (wpc = "busy" /\ wreq.chan \in ChanIds)
          => ENABLED (WorkerChunk \/ WorkerDone \/ WorkerFail)
    /\ (wpc = "idle" /\ model_loaded /\ model_queue # <<>>) => ENABLED WorkerTake

\* a's Caller has read nothing of its finished request while the Worker is
\* writing the events of b
C21_Witness ==
    \E a, b \in Callers :
        /\ submitted = <<a, b>>
        /\ pc[a] = "poll"
        /\ received[a] = <<>>
        /\ Len(chan[creq[a].chan]) = MaxSubChunks + 1
        /\ wreq.id = b
        /\ WrittenOf(b) # <<>>

\* C24: a read that times out is the last read of its Caller, and the Caller has
\* returned.
C24_TimeoutTerminal ==
    \A c \in Callers :
        \A i \in DOMAIN polls[c] :
            polls[c][i] = "empty" => (i = Len(polls[c]) /\ pc[c] = "returned")

C24_Witness ==
    \E c \in Callers :
        /\ polls[c] = <<"event", "empty">>
        /\ chan[creq[c].chan] # <<>>
        /\ pc[c] = "returned"

\* C25: every submitted request is either once on the Generation Queue and not
\* with the Worker, or was taken once by the Worker and is no longer on the
\* queue; nothing else is on the queue or was taken.
C25_TakenExactlyOnce ==
    /\ \A c \in Submitted :
          /\ Count(submitted, c) = 1
          /\ Count(QueuedIds, c) + Count(taken, c) = 1
          /\ Count(QueuedIds, c) = 1 => (wreq.id # c /\ WrittenOf(c) = <<>>)
          /\ \A i \in DOMAIN model_queue : model_queue[i].id = c => model_queue[i] = creq[c]
    /\ \A i \in DOMAIN model_queue : model_queue[i].id \in Submitted
    /\ \A i \in DOMAIN taken : taken[i] \in Submitted
    /\ wpc = "busy" => Count(taken, wreq.id) = 1

\* every Caller submitted, every request was taken, and one of them is done
\* with while its Caller has not read anything yet
C25_Witness ==
    /\ Len(submitted) = NumCallers
    /\ Len(taken) = NumCallers
    /\ model_queue = <<>>
    /\ \E c \in Callers : pc[c] = "poll" /\ received[c] = <<>> /\ wreq.id # c /\ c \in Taken

\* C26: a request whose Caller timed out still gets its terminal event from the
\* Worker, and every event a Caller reads, and every token it accumulates, is of
\* its own request.
C26_NoCancellation ==
    /\ \A c \in Callers : (result[c].kind = "timeout") ~> HasTerminal(WrittenOf(c))
    /\ [](\A c \in Callers :
            /\ \A i \in DOMAIN received[c] : received[c][i].req = c
            /\ \A i \in DOMAIN all_tokens[c] : all_tokens[c][i] \div 10 = c
            /\ \A i \in DOMAIN result[c].tokens : result[c].tokens[i] \div 10 = c)

\* a's Caller timed out, the Worker wrote a's events to the abandoned channel
\* all the same, and b's Caller has its own result
C26_Witness ==
    \E a, b \in Callers :
        /\ a # b
        /\ result[a].kind = "timeout"
        /\ received[a] = <<>>
        /\ Len(chan[creq[a].chan]) = MaxSubChunks + 1
        /\ IsDone(Last(WrittenOf(a)))
        /\ result[b].kind = "success"

\* C27: in generate_speech_with_voice every event read before the last one is a
\* chunk whose action is not "sample"; the loop was left for the final check only
\* on None or on a chunk with action "sample"; after a chunk with action "next"
\* or any other action the Caller polls again (and returns only if that poll
\* times out); the buffer holds the codes of every chunk read.
C27_EndsOnSampleOrNone ==
    program = "final" =>
        \A c \in Callers :
            /\ \A i \in 1..(Len(received[c]) - 1) :
                  IsChunk(received[c][i]) /\ received[c][i].action # "sample"
            /\ result[c].kind \in {"success", "no_tokens"} =>
                  /\ received[c] # <<>>
                  /\ \/ IsDone(Last(received[c]))
                     \/ IsChunk(Last(received[c])) /\ Last(received[c]).action = "sample"
            /\ (/\ received[c] # <<>>
                /\ IsChunk(Last(received[c]))
                /\ Last(received[c]).action # "sample") =>
                  \/ pc[c] = "poll"
                  \/ pc[c] = "returned" /\ Last(polls[c]) = "empty"
            /\ all_tokens[c] = ConcatCodes(received[c])

C27_Witness ==
    \E c \in Callers :
        /\ program = "final"
        /\ Len(received[c]) = 2
        /\ received[c][1].action = "other"
        /\ received[c][2].action = "sample"
        /\ result[c].kind = "success"

\* C23: the k-th generation call of a request gets as context the outputs of
\* its sub-chunks 1..k-1 in order when the request has iterative_prompt set, and
\* nothing when it has not; there is one generation call per chunk event (and
\* one for the call that raised); done is written only after the chunk event of
\* the last sub-chunk.
C23_IterativePrompt ==
    \A c \in Submitted :
        LET w == WrittenOf(c)
            x == contexts[c]
            n == IF TextLen(creq[c].text) > chunk_length
                 THEN (TextLen(creq[c].text) + chunk_length - 1) \div chunk_length
                 ELSE 1
        IN /\ creq[c].iterative_prompt = (program \in {"final", "simple"})
           /\ Len(x) = Cardinality({i \in DOMAIN w : ~IsDone(w[i])})
           /\ \A k \in DOMAIN x :
                 x[k] = IF creq[c].iterative_prompt
                        THEN [i \in 1..(k - 1) |-> w[i].codes]
                        ELSE <<>>
           /\ \A i \in DOMAIN w :
                 IsDone(w[i]) => /\ i = n + 1
                                 /\ \A j \in 1..(i - 1) : IsChunk(w[j])

C23_Witness ==
    \E c \in Callers :
        /\ creq[c].iterative_prompt
        /\ Len(contexts[c]) = MaxSubChunks
        /\ contexts[c][1] = <<>>
        /\ contexts[c][MaxSubChunks] = [i \in 1..(MaxSubChunks - 1) |-> <<Tok(c, i)>>]
        /\ IsDone(Last(WrittenOf(c)))

\* ------------------------------------------- properties of the aggregation loops
\* the reads of script p so far all got an event that arrived less than the
\* script's timeout after the one before
AllInTime(p) ==
    \A i \in 1..(loop[p].at - 1) : i <= Len(feed) /\ feed[i].gap < PollTimeout(p)

\* C28: the timeout is per read: a loop whose reads so far each got an event
\* within the timeout has not reported a timeout, however many events it read
\* and however many seconds have passed since the submission.
C28_TimeoutPerRead ==
    \A p \in Programs :
        AllInTime(p) => /\ loop[p].result.kind # "timeout"
                        /\ loop[p].tokens = ConcatCodes([i \in 1..(loop[p].at - 1) |-> feed[i].e])

\* the whole request took longer than the timeout and still ended in success
C28_Witness ==
    /\ AllInTime("simple")
    /\ loop["simple"].at = MaxFeed + 1
    /\ loop["simple"].elapsed > TimeoutSimple
    /\ loop["simple"].result.kind = "success"

\* s is an initial part of t
IsPrefix(s, t) == Len(s) <= Len(t) /\ s = SubSeq(t, 1, Len(s))

\* C29: when their reads gave the same sequence of events and timeouts, the
\* loops of generate_tts_audio and generate_speech are in the same state, and
\* neither has returned on a sequence of reads on which the other went on.
C29_LoopsEquivalent ==
    LET f == loop["fixed"]
        g == loop["simple"]
    IN /\ f.reads = g.reads =>
             /\ f.pc = g.pc
             /\ f.tokens = g.tokens
             /\ f.result.kind = g.result.kind
             /\ f.result.path = g.result.path
             /\ f.result.tokens = g.result.tokens
       /\ (f.pc = "returned" /\ IsPrefix(f.reads, g.reads)) => f.reads = g.reads
       /\ (g.pc = "returned" /\ IsPrefix(g.reads, f.reads)) => f.reads = g.reads

\* both loops returned success after reading the whole feed, which has an event
\* that arrived exactly when the read of generate_tts_audio was due to expire
C29_Witness ==
    /\ loop["fixed"].reads = loop["simple"].reads
    /\ loop["fixed"].pc = "returned"
    /\ loop["simple"].pc = "returned"
    /\ Len(loop["fixed"].reads) = MaxFeed
    /\ \E i \in DOMAIN feed : feed[i].gap = TimeoutFixed
    /\ loop["fixed"].result.kind = "success"
    /\ loop["simple"].result.kind = "success"

====
